---- MODULE Spec2Model ----
(***************************************************************************)
(* A model of self_pipe.SelfPipe (src/self_pipe/pipe.py): the self-pipe    *)
(* trick.  The process owns a table of signal dispositions; each SelfPipe  *)
(* object owns a non-blocking pipe; the runtime invokes handle_signal on   *)
(* the main thread (possibly nested in another handler, or in the middle   *)
(* of poll) and the single consumer calls poll.                            *)
(***************************************************************************)
EXTENDS Integers, Sequences, FiniteSets, TLC

\* ------------------------------------------------------------------ bounds
\* capacity of a pipe's kernel buffer, in bytes
PipeCap == 2
\* handler invocations per run
MaxDeliveries == 4
\* poll calls per run
MaxPolls == 3
\* the longest finite timeout, in clock ticks
MaxTimeout == 1
\* handler frames that can be active at once (1 = no reentrancy)
MaxDepth == 2

\* ------------------------------------------------------------ the host OS
\* the SelfPipe objects of the run
Mailboxes == {1, 2}

\* signal numbers the host accepts: SIGHUP, SIGINT, SIGKILL, SIGRTMIN+1
ValidSignums == {1, 2, 9, 35}
\* members of the signal.Signals enumeration (SIGRTMIN+1 has no member)
SignalsEnum == {1, 2, 9}
\* signals whose disposition cannot be changed: signal.signal raises OSError
Uncatchable == {9}

\* the lists a caller passes to the constructor
SigLists ==
    {<<>>, <<1>>, <<1, 2>>, <<1, 1>>, <<1, 9>>, <<35>>}

\* the timeout arguments a caller passes to poll: a number of seconds
\* (negative, zero, positive) or None (wait forever)
TimeoutArgs ==
    {[kind |-> "secs", secs |-> n] : n \in (-1) .. MaxTimeout}
        \cup {[kind |-> "None", secs |-> 0]}

\* ------------------------------------------------------- results of a call
\* what a call of poll gives its caller: a Signals member, None, or an
\* exception (the byte read is kept for a failed decode)
RetSignal(s) == [kind |-> "Signals", sig |-> s]
RetNone == [kind |-> "None", sig |-> 0]
Raise(e, b) == [kind |-> e, sig |-> b]

VARIABLES
    alive,      \* the process is running
    ctor,       \* ctor[m]: outcome of SelfPipe.__init__ ("unborn" before it)
    args,       \* args[m]: the list SelfPipe.__init__ was given
    fds,        \* fds[m]: the pipe's two descriptors are open
    pipe,       \* pipe[m]: bytes in the pipe's buffer, oldest first
    disp,       \* disp[s]: the object whose handle_signal is installed, or 0
    hstack,     \* active handle_signal frames, innermost last
    pc,         \* where the consumer is: "idle", "select", "read", ...
    pm,         \* the object whose poll is running (0 when idle)
    tmo,        \* the timeout argument of the running poll
    waited,     \* ticks spent in the running poll's select
    data,       \* bytes returned by os.read in the running poll
    results,    \* results[m]: what each finished poll of m gave, in order
    delivered,  \* delivered[m]: signal numbers handle_signal of m got
    hraised,    \* the exception a handler raised last ("none" if none did)
    overflowed, \* some handler's write could not transfer its byte
    nested,     \* some handler was invoked while another was active
    mixed,      \* mixed[m]: a signal was delivered to m after a poll of m
    sawPending, \* the pipe was non-empty at some time in the running select
    consumed    \* bytes the running poll has taken from the pipe

vars ==
    <<alive, ctor, args, fds, pipe, disp, hstack, pc, pm, tmo, waited, data,
      results, delivered, hraised, overflowed, nested, mixed, sawPending,
      consumed>>

osVars == <<fds, pipe, disp>>
pollVars == <<pc, pm, tmo, waited, data, sawPending, consumed>>
histVars == <<delivered, hraised, overflowed, nested, mixed>>

NoTimeout == [kind |-> "secs", secs |-> 0]

Init ==
    /\ alive = TRUE
    /\ ctor = [m \in Mailboxes |-> "unborn"]
    /\ args = [m \in Mailboxes |-> <<>>]
    /\ fds = [m \in Mailboxes |-> FALSE]
    /\ pipe = [m \in Mailboxes |-> <<>>]
    /\ disp = [s \in ValidSignums |-> 0]
    /\ hstack = <<>>
    /\ pc = "idle"
    /\ pm = 0
    /\ tmo = NoTimeout
    /\ waited = 0
    /\ data = <<>>
    /\ results = [m \in Mailboxes |-> <<>>]
    /\ delivered = [m \in Mailboxes |-> <<>>]
    /\ hraised = "none"
    /\ overflowed = FALSE
    /\ nested = FALSE
    /\ mixed = [m \in Mailboxes |-> FALSE]
    /\ sawPending = FALSE
    /\ consumed = 0

\* ------------------------------------------------------------- OS helpers
\* the frame of the handler that was entered first
Outermost(q) == q[1]
\* the frame that is running: the one entered last
Last(q) == q[Len(q)]

\* bytes([signum]): one byte holding the number (ValueError outside 0..255,
\* which no signal number reaches)
bytes_of(signum) == IF signum \in 0 .. 255 THEN <<signum % 256>> ELSE <<>>

\* a write that puts its bytes in front of those waiting
os_write_at_head(buf, bs) ==
    IF Len(buf) + Len(bs) <= PipeCap
    THEN [n |-> Len(bs), buf |-> bs \o buf]
    ELSE [n |-> -1, buf |-> buf]

\* os.write on a non-blocking pipe: a write of at most PIPE_BUF bytes is
\* atomic, it transfers every byte or raises BlockingIOError (n = -1)
os_write(buf, bs) ==
    IF Len(buf) + Len(bs) <= PipeCap
    THEN [n |-> Len(bs), buf |-> buf \o bs]
    ELSE [n |-> -1, buf |-> buf]

\* os.read(fd, n): up to n bytes from the head of the buffer
os_read(buf, n) ==
    LET k == IF Len(buf) < n THEN Len(buf) ELSE n
    IN  [data |-> SubSeq(buf, 1, k), buf |-> SubSeq(buf, k + 1, Len(buf))]

\* the size poll asks os.read for
ReadSizeTwo == 1 + 1
ReadSize == 1

\* select.select([fd], [], [], timeout) at the moment it is evaluated:
\* "readable", "timeout" (the list is empty) or "wait" (keep blocking)
select_zero_blocks(buf, t, w) ==
    IF buf # <<>> THEN "readable"
    ELSE IF t.kind = "secs" /\ t.secs > 0 /\ w >= t.secs THEN "timeout"
    ELSE "wait"
select_timeout_first(buf, t, w) ==
    IF t.kind = "secs" /\ w >= t.secs THEN "timeout"
    ELSE IF buf # <<>> THEN "readable"
    ELSE "wait"
select_no_wait(buf, t, w) ==
    IF buf # <<>> THEN "readable"
    ELSE IF t.kind = "secs" THEN "timeout"
    ELSE "wait"
select_none_is_zero(buf, t, w) ==
    IF buf # <<>> THEN "readable"
    ELSE IF t.kind = "None" \/ w >= t.secs THEN "timeout"
    ELSE "wait"
select_always_ready(buf, t, w) == "readable"
select_readable(buf, t, w) ==
    IF buf # <<>> THEN "readable"
    ELSE IF t.kind = "secs" /\ w >= t.secs THEN "timeout"
    ELSE "wait"

\* signal.Signals(signum): the member, or ValueError for a number without one
Signals(signum) ==
    IF signum \in SignalsEnum
    THEN RetSignal(signum)
    ELSE Raise("ValueError", signum)

\* a registration loop that leaves an installed handler in place
RECURSIVE RegisterAll_first_wins(_, _, _)
RegisterAll_first_wins(table, sigs, m) ==
    IF sigs = <<>> THEN [disp |-> table, ok |-> TRUE]
    ELSE IF Head(sigs) \in Uncatchable THEN [disp |-> table, ok |-> FALSE]
    ELSE RegisterAll_first_wins(
             IF table[Head(sigs)] = 0
             THEN [table EXCEPT ![Head(sigs)] = m] ELSE table,
             Tail(sigs), m)

\* a registration loop in which registering an installed handler again
\* takes it out
RECURSIVE RegisterAll_toggle(_, _, _)
RegisterAll_toggle(table, sigs, m) ==
    IF sigs = <<>> THEN [disp |-> table, ok |-> TRUE]
    ELSE IF Head(sigs) \in Uncatchable THEN [disp |-> table, ok |-> FALSE]
    ELSE RegisterAll_toggle(
             [table EXCEPT ![Head(sigs)] = IF @ = m THEN 0 ELSE m],
             Tail(sigs), m)

\* the loop `for sig in sigs: signal.signal(sig, self.handle_signal)`: the
\* table after it, and whether it raised (it stops at the first failure)
RECURSIVE RegisterAll(_, _, _)
RegisterAll(table, sigs, m) ==
    IF sigs = <<>> THEN [disp |-> table, ok |-> TRUE]
    ELSE IF Head(sigs) \in Uncatchable THEN [disp |-> table, ok |-> FALSE]
    ELSE RegisterAll([table EXCEPT ![Head(sigs)] = m], Tail(sigs), m)

NDeliveries ==
    Len(delivered[1]) + Len(delivered[2])

NPolls ==
    Len(results[1]) + Len(results[2]) + (IF pc = "idle" THEN 0 ELSE 1)

\* the consumer is back in the caller's code
PollIdle ==
    /\ pc' = "idle"
    /\ pm' = 0
    /\ tmo' = NoTimeout
    /\ waited' = 0
    /\ data' = <<>>
    /\ sawPending' = FALSE
    /\ consumed' = 0

\* ------------------------------------------------------------ constructor
SelfPipe_init_unchecked(table, sigs, m) ==
    LET r == RegisterAll(table, sigs, m)
    IN  [outcome |-> IF r.ok THEN "ok" ELSE "OSError",
         opened |-> TRUE, disp |-> r.disp]

\* a constructor that undoes what it did when a registration fails
SelfPipe_init_rollback(table, sigs, m) ==
    IF sigs = <<>>
    THEN [outcome |-> "ValueError", opened |-> FALSE, disp |-> table]
    ELSE LET r == RegisterAll(table, sigs, m)
         IN  IF r.ok
             THEN [outcome |-> "ok", opened |-> TRUE, disp |-> r.disp]
             ELSE [outcome |-> "OSError", opened |-> FALSE, disp |-> table]

\* SelfPipe.__init__(sigs) of object m on the disposition table: its outcome
\* ("ok" or the exception raised), whether the pipe was opened, the table
\* it leaves
SelfPipe_init(table, sigs, m) ==
    IF sigs = <<>>
    THEN [outcome |-> "ValueError", opened |-> FALSE, disp |-> table]
    ELSE LET r == RegisterAll(table, sigs, m)
         IN  [outcome |-> IF r.ok THEN "ok" ELSE "OSError",
              opened |-> TRUE, disp |-> r.disp]

\* SelfPipe(sigs), with os.pipe2 finding free descriptors.  The objects are
\* numbered in the order of their construction.  An exception the
\* constructor raises is recorded as its outcome and left to the caller
Construct(m, sigs) ==
    /\ alive
    /\ pc = "idle"
    /\ hstack = <<>>
    /\ ctor[m] = "unborn"
    /\ \A k \in Mailboxes : k < m => ctor[k] # "unborn"
    /\ LET r == SelfPipe_init(disp, sigs, m)
       IN  /\ ctor' = [ctor EXCEPT ![m] = r.outcome]
           /\ fds' = [fds EXCEPT ![m] = r.opened]
           /\ disp' = r.disp
    /\ args' = [args EXCEPT ![m] = sigs]
    /\ UNCHANGED pipe
    /\ UNCHANGED <<alive, hstack, results>>
    /\ UNCHANGED pollVars
    /\ UNCHANGED histVars

\* ---------------------------------------------------------------- handler
\* the runtime invokes handle_signal(signum, frame) of the object installed
\* for signum, on the main thread, wherever that thread is
Deliver(s) ==
    /\ alive
    /\ disp[s] \in Mailboxes
    /\ Len(hstack) < MaxDepth
    /\ NDeliveries < MaxDeliveries
    /\ LET m == disp[s]
       IN  /\ hstack' = Append(hstack, [sig |-> s, obj |-> m])
           /\ delivered' = [delivered EXCEPT ![m] = Append(@, s)]
           /\ mixed' = [mixed EXCEPT ![m] = @ \/ results[m] # <<>> \/ pm = m]
    /\ nested' = (nested \/ hstack # <<>>)
    /\ UNCHANGED <<alive, ctor, args, results, hraised, overflowed>>
    /\ UNCHANGED osVars
    /\ UNCHANGED pollVars

\* the body of the innermost handle_signal: the write, the check of its
\* result, the return.  An exception leaves every active handler and reaches
\* the code the signal interrupted (poll, or the caller's own code); the
\* process goes on if that code catches it (caught) and ends if not
HandlerWrite(caught) ==
    /\ alive
    /\ hstack # <<>>
    /\ LET f == Last(hstack)
           m == f.obj
           w == os_write(pipe[m], bytes_of(f.sig))
           e == IF w.n = -1 THEN "BlockingIOError" ELSE "ValueError"
       IN  IF w.n = 1
           THEN /\ pipe' = [pipe EXCEPT ![m] = w.buf]
                /\ hstack' = SubSeq(hstack, 1, Len(hstack) - 1)
                /\ sawPending' = (sawPending \/ (pc = "select" /\ pm = m))
                /\ UNCHANGED <<alive, results, hraised, overflowed>>
                /\ UNCHANGED <<pc, pm, tmo, waited, data, consumed>>
           ELSE /\ pipe' = [pipe EXCEPT ![m] = w.buf]
                /\ hstack' = <<>>
                /\ hraised' = e
                /\ overflowed' = TRUE
                /\ alive' = caught
                /\ results' = IF pc = "idle" THEN results
                              ELSE [results EXCEPT ![pm] = Append(@, Raise(e, 0))]
                /\ PollIdle
    /\ UNCHANGED <<ctor, args, fds, disp, delivered, nested, mixed>>

\* ------------------------------------------------------------------- poll
\* a poll whose readiness wait takes a negative timeout for "no timeout", as
\* poll(2) does
PollCall_negative_waits(m, t) ==
    /\ alive
    /\ pc = "idle"
    /\ hstack = <<>>
    /\ ctor[m] = "ok"
    /\ NPolls < MaxPolls
    /\ pc' = "select"
    /\ pm' = m
    /\ tmo' = IF t.kind = "secs" /\ t.secs < 0
              THEN [kind |-> "None", secs |-> t.secs] ELSE t
    /\ waited' = 0
    /\ data' = <<>>
    /\ sawPending' = (pipe[m] # <<>>)
    /\ consumed' = 0
    /\ UNCHANGED results
    /\ UNCHANGED <<alive, ctor, args, hstack>>
    /\ UNCHANGED osVars
    /\ UNCHANGED histVars

\* poll(timeout) is called: select.select validates the timeout and starts
\* to wait.  An exception poll raises itself is recorded as the result of
\* the call and left to the caller
PollCall(m, t) ==
    /\ alive
    /\ pc = "idle"
    /\ hstack = <<>>
    /\ ctor[m] = "ok"
    /\ NPolls < MaxPolls
    /\ IF t.kind = "secs" /\ t.secs < 0
       THEN /\ results' = [results EXCEPT ![m] = Append(@, Raise("ValueError", 0))]
            /\ UNCHANGED pollVars
       ELSE /\ pc' = "select"
            /\ pm' = m
            /\ tmo' = t
            /\ waited' = 0
            /\ data' = <<>>
            /\ sawPending' = (pipe[m] # <<>>)
            /\ consumed' = 0
            /\ UNCHANGED results
    /\ UNCHANGED <<alive, ctor, args, hstack>>
    /\ UNCHANGED osVars
    /\ UNCHANGED histVars

\* a clock tick passes while select waits
Tick ==
    /\ alive
    /\ pc = "select"
    /\ tmo.kind = "secs"
    /\ waited < tmo.secs
    /\ waited' = waited + 1
    /\ UNCHANGED <<alive, ctor, args, hstack, results, pc, pm, tmo, data,
                   sawPending, consumed>>
    /\ UNCHANGED osVars
    /\ UNCHANGED histVars

\* select returns: the descriptor is readable, or the timeout has expired
SelectReturn ==
    /\ alive
    /\ pc = "select"
    /\ hstack = <<>>
    /\ LET r == select_readable(pipe[pm], tmo, waited)
       IN  /\ r # "wait"
           /\ pc' = IF r = "readable" THEN "read" ELSE "timedout"
    /\ UNCHANGED <<alive, ctor, args, hstack, results, pm, tmo, waited, data,
                   sawPending, consumed>>
    /\ UNCHANGED osVars
    /\ UNCHANGED histVars

\* a poll that empties the pipe before it reports that nothing was readable
PollReturnNone_drains ==
    /\ alive
    /\ pc = "timedout"
    /\ hstack = <<>>
    /\ results' = [results EXCEPT ![pm] = Append(@, RetNone)]
    /\ pipe' = [pipe EXCEPT ![pm] = <<>>]
    /\ PollIdle
    /\ UNCHANGED <<alive, ctor, args, hstack, fds, disp>>
    /\ UNCHANGED histVars

\* `if not readable: return None`
PollReturnNone ==
    /\ alive
    /\ pc = "timedout"
    /\ hstack = <<>>
    /\ results' = [results EXCEPT ![pm] = Append(@, RetNone)]
    /\ PollIdle
    /\ UNCHANGED <<alive, ctor, args, hstack>>
    /\ UNCHANGED osVars
    /\ UNCHANGED histVars

\* `data = os.read(self.pipe_fd_r, 1)` and the assertion on its length
PollRead ==
    /\ alive
    /\ pc = "read"
    /\ hstack = <<>>
    /\ LET r == os_read(pipe[pm], ReadSize)
       IN  /\ pipe' = [pipe EXCEPT ![pm] = r.buf]
           /\ IF Len(r.data) = 1
              THEN /\ pc' = "decode"
                   /\ data' = r.data
                   /\ consumed' = consumed + Len(r.data)
                   /\ UNCHANGED <<results, pm, tmo, waited, sawPending>>
              ELSE /\ results' =
                        [results EXCEPT ![pm] = Append(@, Raise("AssertionError", 0))]
                   /\ PollIdle
    /\ UNCHANGED <<alive, ctor, args, fds, disp, hstack>>
    /\ UNCHANGED histVars

\* a poll that returns a byte it cannot decode to the head of the pipe
PollDecode_puts_back ==
    /\ alive
    /\ pc = "decode"
    /\ hstack = <<>>
    /\ results' = [results EXCEPT ![pm] = Append(@, Signals(data[1]))]
    /\ pipe' = IF data[1] \in SignalsEnum \/ Len(pipe[pm]) >= PipeCap THEN pipe
               ELSE [pipe EXCEPT ![pm] = data \o @]
    /\ PollIdle
    /\ UNCHANGED <<alive, ctor, args, hstack, fds, disp>>
    /\ UNCHANGED histVars

\* `signum = data[0]; sig = signal.Signals(signum); return sig`
PollDecode ==
    /\ alive
    /\ pc = "decode"
    /\ hstack = <<>>
    /\ results' = [results EXCEPT ![pm] = Append(@, Signals(data[1]))]
    /\ PollIdle
    /\ UNCHANGED <<alive, ctor, args, hstack>>
    /\ UNCHANGED osVars
    /\ UNCHANGED histVars

\* ---------------------------------------------------------- specification
\* the steps of a process once its objects exist
Run ==
    \/ \E s \in ValidSignums : Deliver(s)
    \/ \E caught \in BOOLEAN : HandlerWrite(caught)
    \/ \E m \in Mailboxes, t \in TimeoutArgs : PollCall(m, t)
    \/ Tick
    \/ SelectReturn
    \/ PollReturnNone
    \/ PollRead
    \/ PollDecode

\* a process that creates a single SelfPipe, as the class asks
Next ==
    \/ \E sigs \in SigLists : Construct(1, sigs)
    \/ Run

Spec == Init /\ [][Next]_vars

\* the interpreter keeps running the main thread (an active handler reaches
\* its write, a poll takes its next step) and the clock of a waiting select
\* advances; signals and calls of the caller come as they please
Fairness ==
    /\ WF_vars(\E caught \in BOOLEAN : HandlerWrite(caught))
    /\ WF_vars(Tick)
    /\ WF_vars(SelectReturn)
    /\ WF_vars(PollReturnNone)
    /\ WF_vars(PollRead)
    /\ WF_vars(PollDecode)

FairSpec == Init /\ [][Next]_vars /\ Fairness

\* a process that creates two
NextTwo ==
    \/ \E m \in Mailboxes, sigs \in SigLists : Construct(m, sigs)
    \/ Run

TwoSpec == Init /\ [][NextTwo]_vars

\* the start of such a process: its constructors run and signals arrive, the
\* event loop has not begun to poll
NextSetup ==
    \/ \E m \in Mailboxes, sigs \in SigLists : Construct(m, sigs)
    \/ \E s \in ValidSignums : Deliver(s)
    \/ \E caught \in BOOLEAN : HandlerWrite(caught)

SetupSpec == Init /\ [][NextSetup]_vars

\* the lists of a caller who builds its objects for SIGHUP and SIGINT
HupIntLists == {<<1>>, <<1, 2>>}

\* a process with two such objects whose event loop probes them with poll()
NextProbe ==
    \/ \E m \in Mailboxes, sigs \in HupIntLists : Construct(m, sigs)
    \/ \E s \in ValidSignums : Deliver(s)
    \/ \E caught \in BOOLEAN : HandlerWrite(caught)
    \/ \E m \in Mailboxes : PollCall(m, NoTimeout)
    \/ SelectReturn
    \/ PollReturnNone
    \/ PollRead
    \/ PollDecode

ProbeSpec == Init /\ [][NextProbe]_vars

\* a process whose one object is built for SIGRTMIN+1 and SIGHUP
NextRealTime ==
    \/ Construct(1, <<35, 1>>)
    \/ Run

RealTimeSpec == Init /\ [][NextRealTime]_vars

TypeOK ==
    /\ alive \in BOOLEAN
    /\ pc \in {"idle", "select", "read", "decode", "timedout"}
    /\ pm \in Mailboxes \cup {0}
    /\ \A m \in Mailboxes : Len(pipe[m]) <= PipeCap
    /\ Len(hstack) <= MaxDepth

\* ------------------------------------------------------ notions of the claims
IsPrefix(a, b) == Len(a) <= Len(b) /\ SubSeq(b, 1, Len(a)) = a

\* the identities the polls of m returned, in order (None and errors left out)
RECURSIVE SigsOf(_)
SigsOf(rs) ==
    IF rs = <<>> THEN <<>>
    ELSE IF Head(rs).kind = "Signals"
    THEN <<Head(rs).sig>> \o SigsOf(Tail(rs))
    ELSE SigsOf(Tail(rs))

Returned(m) == SigsOf(results[m])

\* every signal delivered to m is a member of the Signals enumeration
Identities(m) == \A i \in 1 .. Len(delivered[m]) : delivered[m][i] \in SignalsEnum

\* every finished poll of m returned to its caller (none raised)
PollsReturned(m) ==
    \A i \in 1 .. Len(results[m]) : results[m][i].kind \in {"Signals", "None"}

\* the process runs, no handler is active, the consumer is in the caller's code
Quiet == alive /\ pc = "idle" /\ hstack = <<>>

\* all deliveries to m came one after the other, before the first poll of m
DeliveriesThenPolls(m) == ~nested /\ ~mixed[m]

\* C1: after N deliveries (of enumeration members) to a mailbox followed by
\* polls of it with no delivery in between, the i-th poll returned the i-th
\* delivered identity for every i <= N, and every further poll returned None.
C1_DeliveriesThenPolls ==
    \A m \in Mailboxes :
        (Quiet /\ DeliveriesThenPolls(m) /\ Identities(m) /\ PollsReturned(m))
        => \A i \in 1 .. Len(results[m]) :
              results[m][i] = IF i <= Len(delivered[m])
                              THEN RetSignal(delivered[m][i])
                              ELSE RetNone

\* C2: in a running process whose handler invocations do not nest, the
\* identities the polls of a mailbox have returned are a prefix of the
\* identities delivered to it.
C2_ResultsPrefixOfDeliveries ==
    \A m \in Mailboxes :
        (alive /\ ~nested /\ Identities(m)) => IsPrefix(Returned(m), delivered[m])

\* C3: when one identity was delivered k times to a mailbox before any poll
\* of it, k notifications are pending once the handlers have returned, the
\* first k polls return that identity and the polls after them return None.
C3_NoCoalescing ==
    \A m \in Mailboxes :
        LET k == Len(delivered[m])
        IN  (/\ Quiet
             /\ DeliveriesThenPolls(m)
             /\ Identities(m)
             /\ PollsReturned(m)
             /\ \A i \in 1 .. k : delivered[m][i] = delivered[m][1])
            => /\ results[m] = <<>> => Len(pipe[m]) = k
               /\ Cardinality({i \in 1 .. Len(results[m]) :
                                  results[m][i].kind = "Signals"})
                     = (IF Len(results[m]) < k THEN Len(results[m]) ELSE k)
               /\ \A i \in 1 .. Len(results[m]) :
                     results[m][i].kind = "Signals" =>
                         /\ i <= k
                         /\ results[m][i].sig = delivered[m][1]

\* C1, C2 and C3 hold of the runs in which no handler failed to write
NoOverflow_C1 == ~overflowed => C1_DeliveriesThenPolls
NoOverflow_C2 == ~overflowed => C2_ResultsPrefixOfDeliveries
NoOverflow_C3 == ~overflowed => C3_NoCoalescing

\* a step the consumer takes itself (not a handler, not an exception of one)
OwnStep == hstack = <<>> /\ hstack' = <<>> /\ pc' # pc

\* the poll of m finishes in this step with result r
Finishes(m, r) == results'[m] = Append(results[m], r)

IsZero(t) == t.kind = "secs" /\ t.secs = 0

\* C4: no step removes more than one byte from a pipe, only the read of a
\* poll of that mailbox removes any, one call of poll takes at most one
\* byte, and a poll that returns an identity has taken exactly one.
C4_PollConsumesAtMostOne ==
    /\ [](consumed <= 1)
    /\ [][\A m \in Mailboxes :
            /\ Len(pipe'[m]) >= Len(pipe[m]) - 1
            /\ Len(pipe'[m]) < Len(pipe[m]) =>
                  (pm = m /\ pc = "read" /\ consumed = 0)
            /\ (\E s \in ValidSignums : Finishes(m, RetSignal(s))) =>
                  (pm = m /\ consumed = 1 /\ pipe' = pipe)]_vars

\* two notifications were pending, one poll returned an identity, one is left
C4_Witness ==
    \E m \in Mailboxes :
        /\ Quiet
        /\ ~mixed[m]
        /\ ~overflowed
        /\ Len(delivered[m]) = 2
        /\ Len(results[m]) = 1
        /\ results[m][1].kind = "Signals"
        /\ Len(pipe[m]) = 1

\* C5: a constructor given the empty list raises ValueError, opens no
\* descriptor and installs no handler, and the step in which it fails leaves
\* the descriptors, the pipes and the disposition table as they were.
C5_EmptyListNoSideEffects ==
    /\ [](\A m \in Mailboxes :
            (ctor[m] # "unborn" /\ args[m] = <<>>) =>
                /\ ctor[m] = "ValueError"
                /\ ~fds[m]
                /\ \A s \in ValidSignums : disp[s] # m)
    /\ [][\A m \in Mailboxes :
            (ctor[m] = "unborn" /\ ctor'[m] # "unborn" /\ args'[m] = <<>>) =>
                UNCHANGED <<fds, pipe, disp>>]_vars

\* the second constructor got the empty list while the first object's
\* handlers were installed
C5_Witness ==
    /\ ctor[1] = "ok"
    /\ ctor[2] = "ValueError"
    /\ args[2] = <<>>
    /\ \E s \in ValidSignums : disp[s] = 1

\* C6: a handler whose write cannot transfer its byte ends the process at
\* once and raises no exception into the interrupted code.
C6_FullPipeEndsProcess ==
    overflowed => (~alive /\ hraised = "none")

\* C7: a poll with timeout 0 never waits; with nothing pending its select
\* gives the empty list at once and the poll returns None, and neither step
\* changes the descriptors, the pipes or the disposition table.
C7_ZeroTimeoutProbe ==
    /\ []((pc = "select" /\ IsZero(tmo)) =>
            (waited = 0 /\ select_readable(pipe[pm], tmo, waited) # "wait"))
    /\ [][(OwnStep /\ pc = "select" /\ IsZero(tmo) /\ pipe[pm] = <<>>) =>
            (pc' = "timedout" /\ UNCHANGED <<alive, results, fds, pipe, disp>>)]_vars
    /\ [][(OwnStep /\ pc = "timedout") =>
            (/\ pc' = "idle"
             /\ Finishes(pm, RetNone)
             /\ UNCHANGED <<alive, fds, pipe, disp>>)]_vars

\* a poll with timeout 0 on an empty pipe has got the empty list from select
C7_Witness ==
    /\ pc = "timedout"
    /\ IsZero(tmo)
    /\ ~sawPending
    /\ pipe[pm] = <<>>
    /\ \E s \in ValidSignums : disp[s] = pm

\* C8: a poll returns None only if the pipe was empty during the whole of
\* its wait; when a notification was pending or arrived during the wait, the
\* read takes the oldest byte of the pipe and the poll returns its decoding.
C8_NoneOnlyIfPipeStayedEmpty ==
    /\ [](pc = "timedout" => (~sawPending /\ tmo.kind = "secs"))
    /\ []((pc = "select" /\ pipe[pm] # <<>>) => sawPending)
    /\ [][\A m \in Mailboxes : Finishes(m, RetNone) => (pm = m /\ ~sawPending)]_vars
    /\ [][(OwnStep /\ pc = "select" /\ sawPending) => pc' = "read"]_vars
    /\ [][(OwnStep /\ pc = "read") =>
            (pc' = "decode" /\ data' = <<Head(pipe[pm])>>)]_vars
    /\ [][(OwnStep /\ pc = "decode") => Finishes(pm, Signals(data[1]))]_vars

\* a poll with a positive timeout has read the one notification that was
\* delivered during its wait, before the timeout expired
C8_Witness ==
    /\ pc = "decode"
    /\ tmo.kind = "secs"
    /\ tmo.secs > 0
    /\ waited < tmo.secs
    /\ mixed[pm]
    /\ delivered[pm] = <<data[1]>>
    /\ results[pm] = <<>>

\* C9: a poll with a finite timeout ends; select gives the empty list only
\* when the whole timeout has passed, and with the pipe empty at that moment
\* the poll goes on to return None.
C9_FiniteTimeoutTerminates ==
    /\ [](pc = "timedout" => (tmo.kind = "secs" /\ waited = tmo.secs))
    /\ [][(OwnStep /\ pc = "select" /\ pipe[pm] = <<>>) =>
            (tmo.kind = "secs" /\ waited = tmo.secs /\ pc' = "timedout")]_vars
    /\ ((pc # "idle" /\ tmo.kind = "secs") ~> (pc = "idle"))

\* with no signal ever delivered, a poll with a positive timeout has waited
\* the whole timeout and select has given the empty list
C9_Witness ==
    /\ pc = "timedout"
    /\ tmo.secs > 0
    /\ waited = tmo.secs
    /\ \A m \in Mailboxes : delivered[m] = <<>>

\* C10: a poll with timeout None never returns None; its select keeps
\* waiting while the pipe is empty, and once a notification is in the pipe
\* the poll ends, returning the decoding of the byte it read.
C10_InfiniteTimeoutBlocks ==
    /\ [](tmo.kind = "None" => pc # "timedout")
    /\ []((pc = "select" /\ tmo.kind = "None" /\ pipe[pm] = <<>>) =>
            select_readable(pipe[pm], tmo, waited) = "wait")
    /\ [][tmo.kind = "None" => \A m \in Mailboxes : ~Finishes(m, RetNone)]_vars
    /\ [][(OwnStep /\ tmo.kind = "None" /\ pc = "decode") =>
            Finishes(pm, Signals(data[1]))]_vars
    /\ ((pc = "select" /\ tmo.kind = "None" /\ pipe[pm] # <<>>) ~> (pc = "idle"))

\* a poll with timeout None has read the notification delivered while it
\* was blocked
C10_Witness ==
    /\ pc = "decode"
    /\ tmo.kind = "None"
    /\ mixed[pm]
    /\ delivered[pm] = <<data[1]>>
    /\ results[pm] = <<>>

\* the members of a sequence, and how often s occurs in it
Range(q) == {q[i] : i \in 1 .. Len(q)}
CountOf(q, s) == Cardinality({i \in 1 .. Len(q) : q[i] = s})

\* this step invokes a handler for signal s / writes a byte to the pipe of m
Invokes(s) == Len(hstack') = Len(hstack) + 1 /\ Last(hstack').sig = s
WritesTo(m) == Len(pipe'[m]) > Len(pipe[m])

\* C11: the disposition table is process-wide and the last registration
\* wins: a successful constructor of m leaves every signal of its list with
\* m's handler and every other disposition as it was; a delivery of s invokes
\* the handler of the object installed for s now, which writes the byte s to
\* that object's pipe and to no other; and the polls of a mailbox return an
\* identity no more often than it was delivered to that mailbox.
C11_LastRegistrationWins ==
    /\ [][\A m \in Mailboxes :
            (ctor[m] = "unborn" /\ ctor'[m] = "ok") =>
                \A s \in ValidSignums :
                    disp'[s] = IF s \in Range(args'[m]) THEN m ELSE disp[s]]_vars
    /\ [](\A s \in ValidSignums :
            (ctor[1] = "ok" /\ ctor[2] = "ok" /\ s \in Range(args[1])) =>
                disp[s] = IF s \in Range(args[2]) THEN 2 ELSE 1)
    /\ [][\A s \in ValidSignums :
            Invokes(s) =>
                /\ disp[s] \in Mailboxes
                /\ Last(hstack').obj = disp[s]
                /\ delivered' = [delivered EXCEPT ![disp[s]] = Append(@, s)]]_vars
    /\ [][\A m \in Mailboxes :
            WritesTo(m) =>
                /\ hstack # <<>>
                /\ Last(hstack).obj = m
                /\ pipe' = [pipe EXCEPT ![m] = Append(@, Last(hstack).sig)]]_vars
    /\ [](\A m \in Mailboxes, s \in ValidSignums :
            CountOf(Returned(m), s) <= CountOf(delivered[m], s))

\* the first object was built for SIGHUP and SIGINT, the second for SIGHUP;
\* the SIGHUP delivered after that is pending in the second pipe, and the
\* polls of the first returned what it was delivered and then None
C11_Witness ==
    /\ Quiet
    /\ ~overflowed
    /\ ctor[1] = "ok" /\ args[1] = <<1, 2>>
    /\ ctor[2] = "ok" /\ args[2] = <<1>>
    /\ delivered[2] = <<1>>
    /\ pipe[2] = <<1>>
    /\ delivered[1] = <<1, 2>>
    /\ results[1] = <<RetSignal(1), RetSignal(2), RetNone>>

\* invocations of m's handler for s that have not reached their write
InFlight(m, s) ==
    Cardinality({i \in 1 .. Len(hstack) : hstack[i].obj = m /\ hstack[i].sig = s})

\* bytes s that polls of m have taken out of the pipe
Taken(m, s) ==
    Cardinality({i \in 1 .. Len(results[m]) : results[m][i].sig = s})
        + (IF pm = m THEN CountOf(data, s) ELSE 0)

\* C12: handler invocations may nest at any point; while no write has found
\* the pipe full, each invocation appends exactly one byte, its own signal
\* number, when it returns, and for every mailbox and signal the bytes in
\* the pipe are the deliveries made, less those still in their handler and
\* those the polls have taken.
C12_ReentrantHandlersKeepStream ==
    /\ [][(/\ hstack # <<>>
            /\ hstack' # hstack
            /\ Len(hstack') <= Len(hstack)
            /\ Len(pipe[hstack[Len(hstack)].obj]) < PipeCap) =>
            LET f == hstack[Len(hstack)]
            IN  /\ pipe' = [pipe EXCEPT ![f.obj] = Append(@, f.sig)]
                /\ hstack' = SubSeq(hstack, 1, Len(hstack) - 1)]_vars
    /\ [](~overflowed =>
            \A m \in Mailboxes :
                /\ \A i \in 1 .. Len(pipe[m]) : pipe[m][i] \in Range(delivered[m])
                /\ \A s \in ValidSignums :
                      CountOf(pipe[m], s) + InFlight(m, s) + Taken(m, s)
                          = CountOf(delivered[m], s))

\* SIGINT arrived inside the handler of SIGHUP: the inner handler wrote
\* first, both bytes are in the pipe, whole
C12_Witness ==
    /\ nested
    /\ ~overflowed
    /\ hstack = <<>>
    /\ delivered[1] = <<1, 2>>
    /\ pipe[1] = <<2, 1>>

\* C13: a poll called with a negative timeout is rejected: no poll ever
\* waits on a negative timeout, and the call that ends with the ValueError
\* of select ends in the step it was made, leaving the pipes, the
\* descriptors and the dispositions as they were.
C13_NegativeTimeoutRejected ==
    /\ [](tmo.secs >= 0)
    /\ [][\A m \in Mailboxes :
            (pc = "idle" /\ Len(results'[m]) > Len(results[m])) =>
                /\ Finishes(m, Raise("ValueError", 0))
                /\ pc' = "idle"
                /\ UNCHANGED <<alive, hstack, fds, pipe, disp>>]_vars
    /\ [][\A m \in Mailboxes :
            Finishes(m, Raise("ValueError", 0)) => (pc = "idle" /\ pipe' = pipe)]_vars

\* a poll with a negative timeout was rejected while a notification was
\* pending, which is still in the pipe
C13_Witness ==
    /\ Quiet
    /\ delivered[1] = <<1>>
    /\ results[1] = <<Raise("ValueError", 0)>>
    /\ pipe[1] = <<1>>

\* the list names some identity more than once
HasDuplicate(q) == \E i, j \in 1 .. Len(q) : i < j /\ q[i] = q[j]

\* C14: registering an identity twice is registering it once: the
\* constructor gives the same outcome and table for <<s, s>> as for <<s>>, an
\* object built from a list with a repeated identity has its handler
\* installed for exactly the identities of the list, a delivery of such an
\* identity invokes the handler once, and that invocation, finding room in
\* the pipe, adds one byte.
C14_DuplicateRegistrationIdempotent ==
    /\ [](\A s \in ValidSignums, m \in Mailboxes :
            SelfPipe_init(disp, <<s, s>>, m) = SelfPipe_init(disp, <<s>>, m))
    /\ [][\A m \in Mailboxes :
            (ctor[m] = "unborn" /\ ctor'[m] = "ok" /\ HasDuplicate(args'[m])) =>
                /\ fds'[m]
                /\ \A s \in ValidSignums :
                      disp'[s] = IF s \in Range(args'[m]) THEN m ELSE disp[s]]_vars
    /\ [][\A m \in Mailboxes :
            (HasDuplicate(args[m]) /\ delivered'[m] # delivered[m]) =>
                /\ Len(delivered'[m]) = Len(delivered[m]) + 1
                /\ hstack' = Append(hstack, [sig |-> delivered'[m][Len(delivered'[m])],
                                             obj |-> m])]_vars
    /\ [][\A m \in Mailboxes :
            (/\ HasDuplicate(args[m])
             /\ hstack # <<>>
             /\ hstack[Len(hstack)].obj = m
             /\ Len(hstack') < Len(hstack)
             /\ Len(pipe[m]) < PipeCap) =>
                /\ Len(hstack') = Len(hstack) - 1
                /\ pipe'[m] = Append(pipe[m], hstack[Len(hstack)].sig)]_vars

\* an object built from [SIGHUP, SIGHUP] was delivered one SIGHUP, and one
\* notification is pending
C14_Witness ==
    /\ Quiet
    /\ ctor[1] = "ok"
    /\ args[1] = <<1, 1>>
    /\ disp[1] = 1
    /\ delivered[1] = <<1>>
    /\ pipe[1] = <<1>>
    /\ results[1] = <<>>

\* C15: the assertion of poll never fails: when the consumer is at its read
\* the pipe holds a byte, whatever handlers ran since select returned; the
\* read gives exactly one byte, and no poll ends with AssertionError.
C15_ReadTransfersOneByte ==
    /\ [](pc = "read" => pipe[pm] # <<>>)
    /\ [](pc = "decode" => Len(data) = 1)
    /\ [][(OwnStep /\ pc = "read") =>
            (/\ pc' = "decode"
             /\ Len(data') = 1
             /\ Len(pipe'[pm]) = Len(pipe[pm]) - 1)]_vars
    /\ [](\A m \in Mailboxes : \A i \in 1 .. Len(results[m]) :
            results[m][i].kind # "AssertionError")

\* a poll has read one byte after two separate handlers wrote, the second
\* of them after the poll had begun
C15_Witness ==
    /\ pc = "decode"
    /\ hstack = <<>>
    /\ ~nested
    /\ mixed[pm]
    /\ delivered[pm] = <<1, 2>>
    /\ data = <<1>>
    /\ pipe[pm] = <<2>>

\* C16: the byte the handler writes for a signal decodes to that signal: a
\* mailbox that was delivered one signal its constructor registered, and was
\* then polled once with a timeout select accepts, returned that identity; no
\* poll ends with the ValueError of a failed decode; and every identity a
\* poll of a mailbox returned has that mailbox's handler as its disposition.
C16_EncodeDecodeRoundTrip ==
    /\ \A m \in Mailboxes :
          (/\ Quiet
           /\ ~overflowed
           /\ ~mixed[m]
           /\ Len(delivered[m]) = 1
           /\ Len(results[m]) = 1
           /\ results[m][1] # Raise("ValueError", 0)) =>
              results[m][1] = RetSignal(delivered[m][1])
    /\ \A m \in Mailboxes : \A i \in 1 .. Len(results[m]) :
          /\ ~(results[m][i].kind = "ValueError" /\ results[m][i].sig # 0)
          /\ results[m][i].kind = "Signals" => disp[results[m][i].sig] = m

\* C16 holds of the objects whose lists hold members of the Signals
\* enumeration only
Members_C16 ==
    (\A m \in Mailboxes : Range(args[m]) \subseteq SignalsEnum)
        => C16_EncodeDecodeRoundTrip

\* the consumer is in a poll that has not reached its read
BeforeRead == pc \in {"select", "timedout", "read"}

\* C17: a poll that has not read has taken nothing; no step of its wait
\* removes or reorders a byte (a handler may append one); a poll that ends
\* without a read, by returning None or by an exception, leaves the pipes
\* as they are; and the read of a later poll takes the oldest byte.
C17_WaitWithoutReadKeepsPipe ==
    /\ [](BeforeRead => (consumed = 0 /\ data = <<>>))
    /\ [][(BeforeRead /\ (pc' = pc \/ pc' \in {"timedout", "read", "idle"})) =>
            IsPrefix(pipe[pm], pipe'[pm])]_vars
    /\ [][\A m \in Mailboxes :
            ((BeforeRead \/ pc = "idle") /\ Len(results'[m]) > Len(results[m])) =>
                /\ results'[m][Len(results'[m])].kind # "Signals"
                /\ pipe' = pipe]_vars
    /\ [][(OwnStep /\ pc = "read") =>
            (data' = <<Head(pipe[pm])>> /\ pipe'[pm] = Tail(pipe[pm]))]_vars

\* a poll was ended in its wait by the exception of a handler, and the poll
\* after it returned the oldest notification, which the first had left
C17_Witness ==
    /\ Quiet
    /\ ~nested
    /\ Len(delivered[1]) = 3
    /\ delivered[1][1] = 1
    /\ delivered[1][2] = 2
    /\ results[1] = <<Raise("BlockingIOError", 0), RetSignal(1)>>
    /\ pipe[1] = <<2>>

\* this step is the return of the running handler after a successful write
HandlerReturns ==
    /\ hstack # <<>>
    /\ hstack' = SubSeq(hstack, 1, Len(hstack) - 1)
    /\ hraised' = hraised
    /\ alive'

\* C18: a handler invocation that writes its byte does nothing else: from
\* its entry to its return the byte, the signal's number, is appended to the
\* pipe of its object behind the bytes that were there, and the other pipe,
\* the descriptors, the dispositions, the consumer's position and what it
\* holds are unchanged; entering the handler changes none of them; and an
\* active handler can always take its step, whatever the consumer does.
C18_HandlerOnlyAppendsItsByte ==
    /\ [][(HandlerReturns /\ Len(pipe[hstack[Len(hstack)].obj]) < PipeCap) =>
            LET f == hstack[Len(hstack)]
            IN  /\ pipe' = [pipe EXCEPT ![f.obj] = pipe[f.obj] \o <<f.sig>>]
                /\ UNCHANGED <<fds, disp, ctor, args>>
                /\ UNCHANGED <<pc, pm, tmo, waited, data, consumed, results>>]_vars
    /\ [][(\E s \in ValidSignums : Invokes(s)) =>
            (/\ UNCHANGED <<fds, pipe, disp, ctor, args>>
             /\ UNCHANGED <<pc, pm, tmo, waited, data, consumed, results>>)]_vars
    /\ []((alive /\ hstack # <<>>) => ENABLED (\E caught \in BOOLEAN : HandlerWrite(caught)))

\* a second handler has written behind the byte of the first while a poll
\* was waiting to read
C18_Witness ==
    /\ pc = "read"
    /\ hstack = <<>>
    /\ ~nested
    /\ ~overflowed
    /\ delivered[1] = <<1, 2>>
    /\ pipe[1] = <<1, 2>>

\* the signals of the list before its first uncatchable one
RECURSIVE Registrable(_)
Registrable(q) ==
    IF q = <<>> \/ Head(q) \in Uncatchable THEN {}
    ELSE {Head(q)} \cup Registrable(Tail(q))

\* C19: a constructor that fails in its registration loop raises OSError
\* and undoes nothing: the pipe it opened stays open, the signals of the
\* list before the one that failed have its handler and the other
\* dispositions are as before; the object is never polled, and the
\* deliveries of those signals put their bytes into its pipe, where they stay.
C19_NoRollbackOnRegistrationFailure ==
    /\ [][\A m \in Mailboxes :
            (ctor[m] = "unborn" /\ ctor'[m] = "OSError") =>
                /\ \E k \in 1 .. Len(args'[m]) : args'[m][k] \in Uncatchable
                /\ fds'[m]
                /\ \A s \in ValidSignums :
                      disp'[s] = IF s \in Registrable(args'[m]) THEN m ELSE disp[s]]_vars
    /\ [](\A m \in Mailboxes :
            ctor[m] = "OSError" =>
                /\ fds[m]
                /\ pm # m
                /\ results[m] = <<>>
                /\ Range(delivered[m]) \subseteq Registrable(args[m])
                /\ ~overflowed =>
                      \A s \in ValidSignums :
                          CountOf(pipe[m], s) + InFlight(m, s) = CountOf(delivered[m], s))
    /\ [][\A m \in Mailboxes :
            ctor[m] = "OSError" => IsPrefix(pipe[m], pipe'[m])]_vars

\* SelfPipe([SIGHUP, SIGKILL]) failed at SIGKILL; a SIGHUP delivered after
\* that has left its byte in the pipe of the object that does not exist
C19_Witness ==
    /\ alive
    /\ hstack = <<>>
    /\ ctor[1] = "OSError"
    /\ args[1] = <<1, 9>>
    /\ fds[1]
    /\ disp[1] = 1
    /\ delivered[1] = <<1>>
    /\ pipe[1] = <<1>>

\* every finished poll of m read a byte (it returned an identity or failed
\* to decode)
PollsRead(m) ==
    \A i \in 1 .. Len(results[m]) :
        \/ results[m][i].kind = "Signals"
        \/ results[m][i].kind = "ValueError" /\ results[m][i].sig # 0

\* C20: poll decodes a byte it has already taken out of the pipe: a decode
\* of a byte that is no member of the enumeration ends the poll with
\* ValueError and leaves the pipes as they are, one byte shorter than before
\* the read; and when polls that each read a byte follow the deliveries, the
\* i-th poll gave the decoding of the i-th delivery, a failure for a
\* non-member and the identity for a member after it.
C20_DecodeAfterRemoval ==
    /\ [](pc = "decode" => (consumed = 1 /\ Len(data) = 1))
    /\ [][(OwnStep /\ pc = "decode" /\ data[1] \notin SignalsEnum) =>
            (/\ Finishes(pm, Raise("ValueError", data[1]))
             /\ pc' = "idle"
             /\ pipe' = pipe)]_vars
    /\ [](\A m \in Mailboxes :
            (Quiet /\ DeliveriesThenPolls(m) /\ ~overflowed /\ PollsRead(m)) =>
                /\ Len(results[m]) + Len(pipe[m]) = Len(delivered[m])
                /\ \A i \in 1 .. Len(results[m]) :
                      results[m][i] = Signals(delivered[m][i])
                /\ \A i \in 1 .. Len(pipe[m]) :
                      pipe[m][i] = delivered[m][Len(results[m]) + i])

\* signal 35 and then SIGHUP were delivered; the first poll failed to decode
\* 35, the second returned SIGHUP, and the pipe is empty
C20_Witness ==
    /\ Quiet
    /\ ~nested
    /\ ~mixed[1]
    /\ delivered[1] = <<35, 1>>
    /\ results[1] = <<Raise("ValueError", 35), RetSignal(1)>>
    /\ pipe[1] = <<>>

====
